---- MODULE Spec2Model ----
\* Model of src/src/App.jsx: the Monte Carlo equity engine (makeDeck,
\* shuffleInPlace, simulateEquity) and the run()/clearAll handlers of App.
EXTENDS Integers, Sequences, FiniteSets, TLC

VARIABLES
  \* ---- one call of simulateEquity ----
  pc,         \* "idle" | "loop" | "done" | "failed"
  req,        \* the argument object {players, hero, board, iterations}
  thrown,     \* message of the Error thrown by the call, "" when none
  out,        \* <<>> until the call returns, then <<the returned object>>
  t,          \* loop variable of the trial loop: trials executed so far
  wins, ties, losses,
  deck,       \* the shuffled deck of the last trial
  simBoard,   \* the completed board of the last trial
  opponents,  \* the opponents' hole cards of the last trial
  idx,        \* the cursor into deck after the last trial
  strengths,  \* strength of heroHand (index 0) and of each oppHand (1..)
  \* ---- App component state ----
  players, hero, board, iters, busy, result, error,
  runPc,      \* "idle" | "timer" | "resolved" | "hung": where run() stands
  closure,    \* the props captured by the run() closure
  \* ---- one call of shuffleInPlace ----
  arr,        \* the array being shuffled
  arrIn,      \* the array as it was passed in
  si,         \* loop variable i
  sjs         \* the j picked at each i (Math.floor(Math.random() * (i + 1)))

engineVars == <<pc, req, thrown, out, t, wins, ties, losses, deck, simBoard,
                opponents, idx, strengths>>
appVars == <<players, hero, board, iters, busy, result, error, runPc, closure>>
shuffleVars == <<arr, arrIn, si, sjs>>
vars == <<engineVars, appVars, shuffleVars>>

------------------------------------------------------------------------------
\* Bounds of the model.

\* Iteration counts are fixed-point numbers with IterDen steps per unit, so that
\* a non-integer count (1.5) is representable.
IterDen == 2
\* Largest iteration count (in 1/IterDen units) passed directly to simulateEquity.
MaxIterFx == 3
\* Math.random() returns k / RandDen for k in 0..RandDen-1.
RandDen == 64
\* Number of random streams explored per trial.
NumStreams == 3
\* Hand strengths returned by the evaluator range over 1..MaxStrength.
MaxStrength == 2
\* The hands whose strength varies; the others get the lowest strength.
RankedHands == 0..2
\* Longest array passed to shuffleInPlace on its own.
MaxShuffleLen == 4

------------------------------------------------------------------------------
\* Cards and deck (App.jsx 4-10).

SUITS == <<"s", "h", "d", "c">>
RANKS == <<"2", "3", "4", "5", "6", "7", "8", "9", "T", "J", "Q", "K", "A">>

\* RANKS.flatMap((r) => SUITS.map((s) => r + s))
ALL_CARDS ==
  [k \in 1..(Len(RANKS) * Len(SUITS)) |->
     RANKS[((k - 1) \div Len(SUITS)) + 1] \o SUITS[((k - 1) % Len(SUITS)) + 1]]

Blank == ""
\* What reading past the end of an array yields.
undefined == "undefined"
\* filter(Boolean) on card strings: "" is falsy.
Truthy(c) == c # Blank

Range(s) == {s[k] : k \in DOMAIN s}

\* Mutant: the exclusion set is ignored.
makeDeckNoExclude(exclude) == ALL_CARDS

\* ALL_CARDS.filter((c) => !exclude.has(c))
makeDeck(exclude) == SelectSeq(ALL_CARDS, LAMBDA c : c \notin exclude)

\* arr[i] for a 0-based i, undefined past the end.
At(a, i) == IF i >= 0 /\ i < Len(a) THEN a[i + 1] ELSE undefined

------------------------------------------------------------------------------
\* shuffleInPlace (App.jsx 12-18).

\* const j = Math.floor(Math.random() * (i + 1)), for Math.random() = r / RandDen
PickJ(r, i) == (r * (i + 1)) \div RandDen

\* [arr[i], arr[j]] = [arr[j], arr[i]], i and j 0-based
SwapAt(a, i, j) == [a EXCEPT ![i + 1] = a[j + 1], ![j + 1] = a[i + 1]]

\* Mutant: the loop stops one index early (i > 1).
RECURSIVE ShuffleFromSkipLast(_, _, _)
ShuffleFromSkipLast(a, i, js) ==
  IF i > 1 THEN ShuffleFromSkipLast(SwapAt(a, i, js[i]), i - 1, js) ELSE a

\* The loop body from index i down to 1; js[i] is the j picked at index i.
RECURSIVE ShuffleFrom(_, _, _)
ShuffleFrom(a, i, js) ==
  IF i > 0 THEN ShuffleFrom(SwapAt(a, i, js[i]), i - 1, js) ELSE a

shuffleInPlace(a, js) == ShuffleFrom(a, Len(a) - 1, js)

\* The value of the n-th Math.random() call of stream s, as a numerator over
\* RandDen. Stream 0 is constantly 0; the others step through [0, 1).
MathRandom(s, n) == (s * (7 * n + 3)) % RandDen

\* The j picked at each index i of an array of length n under stream s.
StreamPicks(s, n) == [i \in 1..(n - 1) |-> PickJ(MathRandom(s, n - 1 - i), i)]

------------------------------------------------------------------------------
\* simulateEquity (App.jsx 94-144).

DuplicateMsg == "Duplicate cards detected. Please fix your selections."
PlayersMsg == "Players must be between 2 and 10."
HoleCardsMsg == "Please choose both of your hole cards."

\* [...hero, ...board].filter(Boolean)
KnownList(r) == SelectSeq(r.hero \o r.board, Truthy)
\* new Set(...)
Known(r) == Range(KnownList(r))

\* Mutant: the player-count check is missing.
ValidationErrorNoPlayers(r) ==
  IF Cardinality(Known(r)) # Len(KnownList(r)) THEN DuplicateMsg
  ELSE IF ~Truthy(r.hero[1]) \/ ~Truthy(r.hero[2]) THEN HoleCardsMsg
  ELSE ""

\* Mutant: the duplicate check is missing.
ValidationErrorNoDuplicates(r) ==
  IF r.players < 2 \/ r.players > 10 THEN PlayersMsg
  ELSE IF ~Truthy(r.hero[1]) \/ ~Truthy(r.hero[2]) THEN HoleCardsMsg
  ELSE ""

\* The three checks in source order; "" when none throws.
ValidationError(r) ==
  IF Cardinality(Known(r)) # Len(KnownList(r)) THEN DuplicateMsg
  ELSE IF r.players < 2 \/ r.players > 10 THEN PlayersMsg
  ELSE IF ~Truthy(r.hero[1]) \/ ~Truthy(r.hero[2]) THEN HoleCardsMsg
  ELSE ""

\* The number of trials the loop executes: the first t with !(t < iterations).
TrialsRun(iterations) ==
  IF iterations <= 0 THEN 0 ELSE (iterations + IterDen - 1) \div IterDen

\* t < iterations, iterations in 1/IterDen units
LoopContinues(n, iterations) == n * IterDen < iterations

\* Mutant: an unknown slot i is filled from deck[i], not from the cursor.
RECURSIVE FillBoardByslot(_, _, _, _)
FillBoardByslot(b, d, i, cur) ==
  IF i >= 5 THEN [board |-> b, idx |-> cur]
  ELSE IF ~Truthy(b[i + 1])
    THEN FillBoardByslot([b EXCEPT ![i + 1] = At(d, i)], d, i + 1, cur + 1)
    ELSE FillBoardByslot(b, d, i + 1, cur)

\* for (i = 0; i < 5; i++) if (!simBoard[i]) simBoard[i] = deck[idx++]
RECURSIVE FillBoard(_, _, _, _)
FillBoard(b, d, i, cur) ==
  IF i >= 5 THEN [board |-> b, idx |-> cur]
  ELSE IF ~Truthy(b[i + 1])
    THEN FillBoard([b EXCEPT ![i + 1] = At(d, cur)], d, i + 1, cur + 1)
    ELSE FillBoard(b, d, i + 1, cur)

\* Mutant: c2 is read without advancing the cursor past c1.
RECURSIVE DealOpponentsSameCard(_, _, _, _, _)
DealOpponentsSameCard(opps, d, p, n, cur) ==
  IF p >= n - 1 THEN [opponents |-> opps, idx |-> cur]
  ELSE DealOpponentsSameCard(Append(opps, <<At(d, cur), At(d, cur)>>), d, p + 1, n, cur + 1)

\* for (p = 0; p < players - 1; p++) opponents.push([deck[idx++], deck[idx++]])
RECURSIVE DealOpponents(_, _, _, _, _)
DealOpponents(opps, d, p, n, cur) ==
  IF p >= n - 1 THEN [opponents |-> opps, idx |-> cur]
  ELSE DealOpponents(Append(opps, <<At(d, cur), At(d, cur + 1)>>), d, p + 1, n, cur + 2)

\* Hand.winners(all): the hands of all that no other hand beats, for hands
\* compared by strength. all is indexed from 0 (heroHand) to the last oppHand.
Winners(all) == {h \in DOMAIN all : \A g \in DOMAIN all : all[g] <= all[h]}

\* Mutant: a shared first place counts as a win.
ClassifyTieAsWin(all) == IF 0 \in Winners(all) THEN "win" ELSE "loss"

\* The if/else at lines 130-136; heroHand is hand 0.
Classify(all) ==
  IF Cardinality(Winners(all)) = 1
    THEN (IF Winners(all) = {0} THEN "win" ELSE "loss")
    ELSE (IF 0 \in Winners(all) THEN "tie" ELSE "loss")

\* The strengths Hand.solve may give to n hands.
StrengthProfiles(n) ==
  LET ranked == RankedHands \cap 0..(n - 1)
  IN {[h \in 0..(n - 1) |-> IF h \in ranked THEN f[h] ELSE 1] :
        f \in [ranked -> 1..MaxStrength]}

\* A rate wins / iterations, kept as numerator and denominator
\* (the denominator in 1/IterDen units).
Ratio(n, d) == <<n * IterDen, d>>

\* The returned object { win, tie, loss, equity, iterations }.
ResultOf(w, ti, l, iterations) ==
  [win |-> Ratio(w, iterations), tie |-> Ratio(ti, iterations),
   loss |-> Ratio(l, iterations), equity |-> Ratio(2 * w + ti, 2 * iterations),
   iterations |-> iterations]

NoRequest ==
  [players |-> 0, hero |-> <<Blank, Blank>>,
   board |-> <<Blank, Blank, Blank, Blank, Blank>>, iterations |-> 0]

\* The requests passed to simulateEquity.
PlayerInputs == {1, 2, 10, 11, 26}
HeroPool == {Blank, "As", "Ks"}
BoardPool == {Blank, "As", "Qd"}
BoardInputs ==
  {b \in [1..5 -> BoardPool] : Cardinality({k \in 1..5 : b[k] # Blank}) <= 1}
    \cup {<<"Qd", Blank, "Jd", Blank, Blank>>, <<"Qd", "Qd", Blank, Blank, Blank>>,
          <<"Qd", "Jd", "Td", Blank, Blank>>, <<"Qd", "Jd", "Td", "2s", "2h">>}
Requests ==
  [players : PlayerInputs, hero : [1..2 -> HeroPool], board : BoardInputs,
   iterations : 0..MaxIterFx]

\* No call of simulateEquity is in progress or has left a result.
EngineIdle ==
  /\ pc = "idle" /\ req = NoRequest /\ thrown = "" /\ out = <<>>
  /\ t = 0 /\ wins = 0 /\ ties = 0 /\ losses = 0
  /\ deck = <<>> /\ simBoard = <<>> /\ opponents = <<>> /\ idx = 0
  /\ strengths = <<>>

EngineInit == EngineIdle

\* simulateEquity is entered and a validation check throws (lines 95-104).
CallThrows ==
  /\ pc = "idle"
  /\ \E r \in Requests :
       /\ ValidationError(r) # ""
       /\ req' = r /\ thrown' = ValidationError(r) /\ pc' = "failed"
  /\ UNCHANGED <<out, t, wins, ties, losses, deck, simBoard, opponents, idx, strengths>>
  /\ UNCHANGED <<appVars, shuffleVars>>

\* simulateEquity is entered and passes validation (lines 95-106).
CallEnters ==
  /\ pc = "idle"
  /\ \E r \in Requests :
       /\ ValidationError(r) = ""
       /\ req' = r /\ pc' = "loop"
  /\ t' = 0 /\ wins' = 0 /\ ties' = 0 /\ losses' = 0
  /\ UNCHANGED <<thrown, out, deck, simBoard, opponents, idx, strengths>>
  /\ UNCHANGED <<appVars, shuffleVars>>

\* One iteration of the trial loop (lines 108-137).
Trial ==
  /\ pc = "loop"
  /\ LoopContinues(t, req.iterations)
  /\ \E s \in 0..(NumStreams - 1) :
       \E fresh \in {makeDeck(Known(req))} :
       \E d \in {shuffleInPlace(fresh, StreamPicks(s, Len(fresh)))} :
       \E filled \in {FillBoard(req.board, d, 0, 0)} :
       \E dealt \in {DealOpponents(<<>>, d, 0, req.players, filled.idx)} :
          /\ deck' = d
          /\ simBoard' = filled.board
          /\ opponents' = dealt.opponents
          /\ idx' = dealt.idx
          /\ \E all \in StrengthProfiles(Len(dealt.opponents) + 1) :
               \E outcome \in {Classify(all)} :
                 /\ strengths' = all
                 /\ wins' = wins + (IF outcome = "win" THEN 1 ELSE 0)
                 /\ ties' = ties + (IF outcome = "tie" THEN 1 ELSE 0)
                 /\ losses' = losses + (IF outcome = "loss" THEN 1 ELSE 0)
  /\ t' = t + 1
  /\ UNCHANGED <<pc, req, thrown, out>>
  /\ UNCHANGED <<appVars, shuffleVars>>

\* The loop ends and the rates are returned (lines 139-143).
Return ==
  /\ pc = "loop"
  /\ ~LoopContinues(t, req.iterations)
  /\ out' = <<ResultOf(wins, ties, losses, req.iterations)>>
  /\ pc' = "done"
  /\ UNCHANGED <<req, thrown, t, wins, ties, losses, deck, simBoard, opponents, idx, strengths>>
  /\ UNCHANGED <<appVars, shuffleVars>>

------------------------------------------------------------------------------
\* App (App.jsx 155-195, 220-278).

MinPlayers == 2
MaxPlayers == 10
MinIterations == 1000
MaxIterations == 200000

Min(a, b) == IF a < b THEN a ELSE b
Max(a, b) == IF a > b THEN a ELSE b

\* Mutant: the upper limit is missing: Math.max(1000, Number(iters) || 0).
ClampIterationsNoUpper(x) == Max(MinIterations * IterDen, IF x = 0 THEN 0 ELSE x)

\* Math.max(1000, Math.min(200000, Number(iters) || 0)), in 1/IterDen units
ClampIterations(x) ==
  Max(MinIterations * IterDen, Min(MaxIterations * IterDen, IF x = 0 THEN 0 ELSE x))

\* Math.max(2, Math.min(10, Number(e.target.value)))
ClampPlayers(x) == Max(MinPlayers, Min(MaxPlayers, x))

\* useMemo(() => new Set([...hero, ...board].filter(Boolean)))
used == Range(SelectSeq(hero \o board, Truthy))

\* Number(e.target.value) of the inputs; an emptied or non-numeric field reads 0.
PlayerTexts == {0, 11}
IterTexts == {0, MinIterations * IterDen + 1, MaxIterations * IterDen + 1}
\* The cards picked in the pickers.
HeroPicks == {"As"}
BoardPicks == {"Qd"}

AppInit ==
  /\ players = 6
  /\ hero = <<"As", "Ks">>
  /\ board = <<Blank, Blank, Blank, Blank, Blank>>
  /\ iters = 20000 * IterDen
  /\ busy = FALSE /\ result = <<>> /\ error = ""
  /\ runPc = "idle"
  /\ closure = NoRequest

\* onChange of the players input (line 225).
SetPlayers(x) ==
  /\ players' = ClampPlayers(x)
  /\ UNCHANGED <<hero, board, iters, busy, result, error, runPc, closure>>
  /\ UNCHANGED <<engineVars, shuffleVars>>

\* onChange of the iterations input (line 274).
SetIters(x) ==
  /\ iters' = x
  /\ UNCHANGED <<players, hero, board, busy, result, error, runPc, closure>>
  /\ UNCHANGED <<engineVars, shuffleVars>>

\* A CardPicker option is enabled unless isUsed(c) (line 37); Clear passes "".
Pickable(c, value) == c = Blank \/ ~(c \in used /\ c # value)

\* onChange of a hero CardPicker (lines 239, 244).
SetHero(k, c) ==
  /\ Pickable(c, hero[k])
  /\ hero' = [hero EXCEPT ![k] = c]
  /\ UNCHANGED <<players, board, iters, busy, result, error, runPc, closure>>
  /\ UNCHANGED <<engineVars, shuffleVars>>

\* onChange of a board CardPicker (line 258).
SetBoard(k, c) ==
  /\ Pickable(c, board[k])
  /\ board' = [board EXCEPT ![k] = c]
  /\ UNCHANGED <<players, hero, iters, busy, result, error, runPc, closure>>
  /\ UNCHANGED <<engineVars, shuffleVars>>

\* clearAll (lines 190-195).
ClearAll ==
  /\ hero' = <<Blank, Blank>>
  /\ board' = <<Blank, Blank, Blank, Blank, Blank>>
  /\ result' = <<>>
  /\ error' = ""
  /\ UNCHANGED <<players, iters, busy, runPc, closure>>
  /\ UNCHANGED <<engineVars, shuffleVars>>

\* run() up to the await (lines 166-172): the button is disabled while busy.
Run ==
  /\ ~busy
  /\ runPc = "idle"
  /\ error' = "" /\ result' = <<>> /\ busy' = TRUE
  /\ closure' = [players |-> players, hero |-> hero, board |-> board, iterations |-> iters]
  /\ runPc' = "timer"
  /\ UNCHANGED <<players, hero, board, iters>>
  /\ UNCHANGED <<engineVars, shuffleVars>>

\* The request the timer callback builds (lines 173-178).
TimerRequest == [closure EXCEPT !.iterations = ClampIterations(closure.iterations)]

\* The timer callback (lines 172-180) when simulateEquity returns: every trial
\* runs inside this one callback, and resolve(out) settles the promise.
TimerResolves ==
  /\ runPc = "timer"
  /\ ValidationError(TimerRequest) = ""
  /\ req' = TimerRequest
  /\ t' = TrialsRun(TimerRequest.iterations)
  /\ \E o \in {"win", "tie", "loss"} :
       /\ wins' = (IF o = "win" THEN t' ELSE 0)
       /\ ties' = (IF o = "tie" THEN t' ELSE 0)
       /\ losses' = (IF o = "loss" THEN t' ELSE 0)
  /\ out' = <<ResultOf(wins', ties', losses', TimerRequest.iterations)>>
  /\ pc' = "done"
  /\ runPc' = "resolved"
  /\ closure' = NoRequest
  /\ UNCHANGED <<thrown, deck, simBoard, opponents, idx, strengths>>
  /\ UNCHANGED <<players, hero, board, iters, busy, result, error>>
  /\ UNCHANGED shuffleVars

\* The timer callback when simulateEquity throws: the exception leaves the
\* callback, resolve is never called and the promise stays pending, so the
\* await at line 171 never resumes and neither catch nor finally runs.
TimerThrows ==
  /\ runPc = "timer"
  /\ ValidationError(TimerRequest) # ""
  /\ req' = TimerRequest
  /\ thrown' = ValidationError(TimerRequest)
  /\ pc' = "failed"
  /\ runPc' = "hung"
  /\ closure' = NoRequest
  /\ UNCHANGED <<out, t, wins, ties, losses, deck, simBoard, opponents, idx, strengths>>
  /\ UNCHANGED <<players, hero, board, iters, busy, result, error>>
  /\ UNCHANGED shuffleVars

\* run() after the await (lines 182, 185-187); the finished call of
\* simulateEquity leaves nothing behind but the value awaited.
Resume ==
  /\ runPc = "resolved"
  /\ result' = out
  /\ busy' = FALSE
  /\ runPc' = "idle"
  /\ UNCHANGED <<players, hero, board, iters, error, closure>>
  /\ pc' = "idle" /\ req' = NoRequest /\ thrown' = "" /\ out' = <<>>
  /\ t' = 0 /\ wins' = 0 /\ ties' = 0 /\ losses' = 0
  /\ UNCHANGED <<deck, simBoard, opponents, idx, strengths>>
  /\ UNCHANGED shuffleVars

------------------------------------------------------------------------------
\* shuffleInPlace called on its own.

\* The arrays passed in: the first cards of a deck.
ShuffleInputs ==
  {SubSeq(makeDeck(k), 1, n) : k \in {{}, {"2s", "2d"}}, n \in 0..MaxShuffleLen}

\* Every way to pick j in 0..i at each index i of an array of length n.
PickSeqs(n) == {f \in [1..(n - 1) -> 0..(n - 1)] : \A i \in 1..(n - 1) : f[i] <= i}

ShuffleInit ==
  /\ arrIn \in ShuffleInputs
  /\ arr = arrIn
  /\ sjs \in PickSeqs(Len(arrIn))
  /\ si = Len(arrIn) - 1

\* One pass of the loop body (lines 13-16).
ShuffleStep ==
  /\ si > 0
  /\ arr' = SwapAt(arr, si, sjs[si])
  /\ si' = si - 1
  /\ UNCHANGED <<arrIn, sjs>>
  /\ UNCHANGED <<engineVars, appVars>>

ShuffleIdle == arrIn = <<>> /\ arr = <<>> /\ sjs = <<>> /\ si = 0

------------------------------------------------------------------------------
\* Specifications.

\* simulateEquity called directly with requests drawn from Requests.
Init == EngineInit /\ AppInit /\ ShuffleIdle
Next == CallThrows \/ CallEnters \/ Trial \/ Return
Spec == Init /\ [][Next]_vars

\* The App component: edits, Reset and Run Simulation.
InitRun == EngineInit /\ AppInit /\ ShuffleIdle
NextRun ==
  \/ \E x \in PlayerTexts : SetPlayers(x)
  \/ \E x \in IterTexts : SetIters(x)
  \/ \E k \in 1..2, c \in HeroPicks \cup {Blank} : SetHero(k, c)
  \/ \E k \in 1..5, c \in BoardPicks \cup {Blank} : SetBoard(k, c)
  \/ ClearAll
  \/ Run
  \/ TimerResolves
  \/ TimerThrows
  \/ Resume
SpecRun == InitRun /\ [][NextRun]_vars
\* The timer fires and a settled promise resumes its awaiter.
SpecRunFair ==
  /\ SpecRun
  /\ WF_vars(TimerResolves) /\ WF_vars(TimerThrows) /\ WF_vars(Resume)

\* shuffleInPlace on its own, one loop pass per step.
InitShuffle == EngineInit /\ AppInit /\ ShuffleInit
NextShuffle == ShuffleStep
SpecShuffle == InitShuffle /\ [][NextShuffle]_vars

------------------------------------------------------------------------------
\* Properties.

\* The three conditions the validation reports, stated on the request.
PlayersOutOfRange(r) == r.players \notin 2..10
HeroMissing(r) == r.hero[1] = Blank \/ r.hero[2] = Blank
HasDuplicate(r) ==
  LET cards == r.hero \o r.board
  IN \E i, j \in DOMAIN cards : i < j /\ cards[i] # Blank /\ cards[i] = cards[j]

\* A trial of the current call has run.
TrialDone == pc \in {"loop", "done"} /\ t > 0
NumOpponents == req.players - 1
UnknownSlots == {k \in 1..5 : req.board[k] = Blank}
\* The cards a trial deals: the opponents' hole cards and the sampled board slots.
OpponentCards == {opponents[p][c] : p \in DOMAIN opponents, c \in 1..2}
SampledCards == OpponentCards \cup {simBoard[k] : k \in UnknownSlots}
\* Hero's cards, every opponent's cards and the completed board, as one list.
RECURSIVE Flatten(_)
Flatten(ss) == IF ss = <<>> THEN <<>> ELSE Head(ss) \o Flatten(Tail(ss))
TableCards == req.hero \o Flatten(opponents) \o simBoard
\* The position of card c in the canonical order.
CanonicalIndex(c) == CHOOSE k \in DOMAIN ALL_CARDS : ALL_CARDS[k] = c

\* C1: when simulateEquity returns, wins + ties + losses equals the iterations
\* it was given.
C1_CountsSumToIterations ==
  pc = "done" => (wins + ties + losses) * IterDen = req.iterations

\* C2: every request started by run() ends with busy false and exactly one of
\* result and error set.
C2_EveryRunTerminates ==
  (runPc = "timer") ~> (~busy /\ ((result # <<>>) # (error # "")))

\* C3: simulateEquity throws, before any trial and without a result, exactly
\* when the player count is outside [2,10], a hero card is blank or a card
\* appears twice; the message names a condition that holds, and hero = {As, As}
\* gets the duplicate-card message.
C3_ValidationExact ==
  /\ pc # "idle" =>
       (pc = "failed" <=> (PlayersOutOfRange(req) \/ HeroMissing(req) \/ HasDuplicate(req)))
  /\ pc = "failed" =>
       /\ thrown \in {DuplicateMsg, PlayersMsg, HoleCardsMsg}
       /\ thrown = DuplicateMsg => HasDuplicate(req)
       /\ thrown = PlayersMsg => PlayersOutOfRange(req)
       /\ thrown = HoleCardsMsg => HeroMissing(req)
       /\ (req.hero[1] = req.hero[2] /\ req.hero[1] # Blank) => thrown = DuplicateMsg
       /\ t = 0 /\ wins + ties + losses = 0 /\ deck = <<>> /\ out = <<>>
  /\ pc \in {"loop", "done"} => thrown = ""
C3_Witness ==
  pc = "failed" /\ req.hero = <<"As", "As">> /\ req.players = 2 /\ thrown = DuplicateMsg

\* C4: in every trial of a validated request no card appears twice among the
\* hero's cards, the opponents' cards and the completed board.
C4_TrialCardsDisjoint ==
  TrialDone =>
    /\ Len(TableCards) = 2 + 2 * NumOpponents + 5
    /\ Cardinality(Range(TableCards)) = Len(TableCards)
C4_Witness ==
  TrialDone /\ req.players = 10 /\ UnknownSlots = 1..5 /\ Len(TableCards) = 25

\* C5: a trial counts a win iff hero's hand is strictly stronger than every
\* opponent's, a tie iff hero's hand has the greatest strength and some opponent
\* has it too, and a loss otherwise; exactly one counter goes up, by one.
C5_Classification ==
  [][t' = t + 1 =>
       LET all == strengths'
           opps == DOMAIN all \ {0}
           heroWins == \A o \in opps : all[0] > all[o]
           heroTies == (\A o \in opps : all[0] >= all[o]) /\ (\E o \in opps : all[0] = all[o])
       IN /\ wins' = wins + (IF heroWins THEN 1 ELSE 0)
          /\ ties' = ties + (IF heroTies THEN 1 ELSE 0)
          /\ losses' = losses + (IF ~heroWins /\ ~heroTies THEN 1 ELSE 0)
          /\ (wins' + ties' + losses') = (wins + ties + losses) + 1]_vars
C5_Witness ==
  /\ pc = "loop" /\ t = 1 /\ ties = 1
  /\ Cardinality({h \in DOMAIN strengths : strengths[h] = strengths[0]}) >= 3
  /\ \E h \in DOMAIN strengths : strengths[h] < strengths[0]

\* C6: whatever the iterations input holds, the count run() hands to
\* simulateEquity lies in [1000, 200000], and a request is rejected only for its
\* players, hero or board.
C6_IterationsClamped ==
  runPc \in {"resolved", "hung"} =>
    /\ req.iterations >= MinIterations * IterDen
    /\ req.iterations <= MaxIterations * IterDen
    /\ runPc = "resolved" <=> pc = "done"
    /\ runPc = "hung" <=>
         (pc = "failed" /\ (PlayersOutOfRange(req) \/ HeroMissing(req) \/ HasDuplicate(req)))
C6_Witness ==
  /\ runPc = "resolved" /\ req.iterations = MaxIterations * IterDen
  /\ iters > MaxIterations * IterDen

\* C7: makeDeck yields the cards of the 52-card universe that are not known,
\* each once, in canonical order; and no known card is in the shuffled deck or
\* dealt to the board or an opponent.
C7_DeckExcludesKnown ==
  pc # "idle" =>
    LET known == Known(req)
        d == makeDeck(known)
    IN /\ Cardinality(Range(ALL_CARDS)) = 52
       /\ Range(d) = Range(ALL_CARDS) \ known
       /\ Len(d) = 52 - Cardinality(known \cap Range(ALL_CARDS))
       /\ Cardinality(Range(d)) = Len(d)
       /\ \A i \in 1..(Len(d) - 1) : CanonicalIndex(d[i]) < CanonicalIndex(d[i + 1])
       /\ TrialDone =>
            /\ Range(deck) \cap known = {}
            /\ Len(deck) = Len(d)
            /\ SampledCards \cap known = {}
C7_Witness ==
  /\ TrialDone /\ req.hero = <<"As", "Ks">>
  /\ req.board = <<"Qd", "Jd", "Td", Blank, Blank>>
  /\ Len(deck) = 47

\* C8: in every trial of a validated request the cursor stops at
\* (players-1)*2 + (unknown board slots), within the deck, and no undefined
\* card is placed on the board or dealt.
C8_NoDeckUnderflow ==
  /\ pc \in {"loop", "done"} =>
       2 * NumOpponents + Cardinality(UnknownSlots) <= Len(makeDeck(Known(req)))
  /\ TrialDone =>
       /\ idx = 2 * NumOpponents + Cardinality(UnknownSlots)
       /\ idx <= Len(deck)
       /\ undefined \notin Range(simBoard) \cup OpponentCards
C8_Witness ==
  TrialDone /\ req.players = 10 /\ UnknownSlots = 1..5 /\ idx = 23

\* The number of unknown slots before slot k.
UnknownBefore(k) == Cardinality({m \in UnknownSlots : m < k})

\* C9: a trial keeps the fixed board slots, fills the unknown slots left to
\* right from deck positions 0, 1, ..., deals the opponents the next consecutive
\* pairs, leaves the request unchanged and starts from a fresh full deck.
C9_DrawOrder ==
  [][t' = t + 1 =>
       /\ req' = req
       /\ \A k \in 1..5 : req.board[k] # Blank => simBoard'[k] = req.board[k]
       /\ \A k \in UnknownSlots : simBoard'[k] = At(deck', UnknownBefore(k))
       /\ Len(opponents') = NumOpponents
       /\ \A p \in 1..NumOpponents :
            opponents'[p] = <<At(deck', Cardinality(UnknownSlots) + 2 * (p - 1)),
                              At(deck', Cardinality(UnknownSlots) + 2 * (p - 1) + 1)>>
       /\ Range(deck') = Range(makeDeck(Known(req)))
       /\ Len(deck') = Len(makeDeck(Known(req)))]_vars
C9_Witness ==
  /\ pc = "loop" /\ t = 2
  /\ req.board = <<"Qd", Blank, "Jd", Blank, Blank>>
  /\ req.players = 10
  /\ simBoard[2] = deck[1] /\ simBoard[4] = deck[2] /\ simBoard[5] = deck[3]
  /\ opponents[1] = <<deck[4], deck[5]>> /\ opponents[9] = <<deck[20], deck[21]>>

RECURSIVE Factorial(_)
Factorial(n) == IF n <= 1 THEN 1 ELSE n * Factorial(n - 1)
\* The arrangements of the cards of a.
Arrangements(a) == {q \in [DOMAIN a -> Range(a)] : Range(q) = Range(a)}

\* C10: shuffleInPlace returns a permutation of its input, and every permutation
\* of the input is produced by exactly one of the n! sequences of picks.
C10_ShuffleUniform ==
  LET n == Len(arrIn)
      outs == {shuffleInPlace(arrIn, js) : js \in PickSeqs(n)}
  IN /\ Len(arr) = n /\ Range(arr) = Range(arrIn)
     /\ Cardinality(Range(arr)) = n
     /\ si <= 0 => arr = shuffleInPlace(arrIn, sjs)
     /\ Cardinality(PickSeqs(n)) = Factorial(n)
     /\ outs = Arrangements(arrIn)
     /\ Cardinality(outs) = Cardinality(PickSeqs(n))
C10_Witness ==
  /\ Len(arrIn) = MaxShuffleLen /\ si = 0 /\ arr # arrIn
  /\ arr[1] = arrIn[MaxShuffleLen]

====
